---- MODULE Spec2Model ----
(***************************************************************************)
(* PEF decontamination efficacy dashboard (src/src/app.py).                *)
(*                                                                         *)
(* The module-level script loads the Excel sheet, cleans it into the       *)
(* global table df, derives the control values, and builds the layout;     *)
(* afterwards the only code that runs is the callback update_bar_chart.    *)
(*                                                                         *)
(* Numbers.  An energy value is a decimal with two places, held as the     *)
(* integer number of hundredths h; the program holds the IEEE-754 binary64 *)
(* nearest to h/100.  A value rounded to one decimal is held as the        *)
(* integer number of tenths t; the program holds the binary64 nearest to   *)
(* t/10, and t |-> fl(t/10) is strictly increasing, so comparing the       *)
(* doubles is comparing the tenths.  The two roundings of the program,     *)
(* the builtin round(x, 1) and numpy's round (Series.round, and            *)
(* numpy.float64.__round__), are computed on the bits of the double.       *)
(***************************************************************************)
EXTENDS Integers, Sequences, FiniteSets

VARIABLES
    pc,                       \* position of the process: load, describe, layout, serving, crashed
    source,                   \* the rows of sheet 'PEFInactivationData' as read from the file
    df,                       \* the module-level global df
    organism_grouped_values,  \* df['Microorganism'].unique()
    matrix_category_values,   \* df['Matrix category'].unique()
    min_rounded,              \* min_est_energy_input_2_J_ml_rounded (tenths, or NaN)
    max_rounded,              \* max_est_energy_input_2_J_ml_rounded (tenths, or NaN)
    slider,                   \* the dcc.RangeSlider component once constructed, else None
    layout,                   \* app.layout once assigned, else None
    error,                    \* the exception that ended the script, or "none"
    call,                     \* the arguments of the last callback invocation, else None
    fig                       \* the figure returned by the last callback invocation, else None

vars == <<pc, source, df, organism_grouped_values, matrix_category_values,
          min_rounded, max_rounded, slider, layout, error, call, fig>>

\* Python's None where a component, a call or a figure does not exist yet.
None == [kind |-> "None"]
\* A missing cell (NaN); every number of the sheet is >= 0.
NaN == 0 - 1

\* ------------------------------------------------------------------ bounds

\* Longest sheet the model reads.
MaxRows == 2

\* ------------------------------------------------- binary64 arithmetic
\* A double is [e, m]: the 53-bit significand m = <<top, l1, l2, l3, l4>>,
\* top = 1 followed by four limbs of 13 bits, and the value m * 2^(e - 52).

RECURSIVE Pow2(_)
Pow2(n) == IF n = 0 THEN 1 ELSE 2 * Pow2(n - 1)

RECURSIVE ExpOf(_, _)
\* Largest e >= 0 with 100 * 2^e <= h (for h >= 100).
ExpOf(h, e) == IF 100 * Pow2(e + 1) <= h THEN ExpOf(h, e + 1) ELSE e

RECURSIVE ShiftOf(_, _)
\* Smallest k >= 1 with h * 2^k >= 100 (for 1 <= h < 100).
ShiftOf(h, k) == IF h * Pow2(k) < 100 THEN ShiftOf(h, k + 1) ELSE k

RECURSIVE Limbs(_, _, _)
\* The next n limbs of the binary expansion of r/den (0 <= r < den).
Limbs(r, den, n) ==
    IF n = 0 THEN <<>>
    ELSE <<(r * 8192) \div den>> \o Limbs((r * 8192) % den, den, n - 1)

RECURSIVE Remainder(_, _, _)
\* What is left of r/den after n limbs, as a numerator over den.
Remainder(r, den, n) ==
    IF n = 0 THEN r ELSE Remainder((r * 8192) % den, den, n - 1)

\* The significand m plus one unit in the last place, at leading exponent e.
RoundUp(e, m) ==
    LET c4 == (m[5] + 1) \div 8192
        c3 == (m[4] + c4) \div 8192
        c2 == (m[3] + c3) \div 8192
        c1 == (m[2] + c2) \div 8192
    IN  IF m[1] + c1 = 2 THEN [e |-> e + 1, m |-> <<1, 0, 0, 0, 0>>]
        ELSE [e |-> e,
              m |-> <<m[1], (m[2] + c2) % 8192, (m[3] + c3) % 8192,
                      (m[4] + c4) % 8192, (m[5] + 1) % 8192>>]

\* The double nearest to h/100 (h >= 1), ties to even.
\* dir is the sign of (the double - h/100).
ToDouble(h) ==
    LET e   == IF h >= 100 THEN ExpOf(h, 0) ELSE 0 - ShiftOf(h, 1)
        num == IF h >= 100 THEN h ELSE h * Pow2(0 - e)
        den == IF h >= 100 THEN 100 * Pow2(e) ELSE 100
        m   == <<1>> \o Limbs(num - den, den, 4)
        r   == Remainder(num - den, den, 4)
        up  == 2 * r > den \/ (2 * r = den /\ m[5] % 2 = 1)
    IN  IF r = 0 THEN [e |-> e, m |-> m, dir |-> 0]
        ELSE IF up THEN [e |-> RoundUp(e, m).e, m |-> RoundUp(e, m).m, dir |-> 1]
        ELSE [e |-> e, m |-> m, dir |-> -1]

\* d * 10.0, rounded to nearest, ties to even.  The exact product p has 56 or
\* 57 bits; its low k = 3 or 4 bits are rounded away.
Mul10(d) ==
    LET v4   == d.m[5] * 10
        v3   == d.m[4] * 10 + (v4 \div 8192)
        v2   == d.m[3] * 10 + (v3 \div 8192)
        v1   == d.m[2] * 10 + (v2 \div 8192)
        p    == <<d.m[1] * 10 + (v1 \div 8192), v1 % 8192, v2 % 8192, v3 % 8192, v4 % 8192>>
        k    == IF p[1] >= 16 THEN 4 ELSE 3
        K    == Pow2(k)
        U    == 8192 \div K
        keep == <<p[1] \div K,
                  (p[1] % K) * U + (p[2] \div K),
                  (p[2] % K) * U + (p[3] \div K),
                  (p[3] % K) * U + (p[4] \div K),
                  (p[4] % K) * U + (p[5] \div K)>>
        drop == p[5] % K
        up   == /\ drop \div (K \div 2) = 1
                /\ (drop % (K \div 2) # 0 \/ keep[5] % 2 = 1)
    IN  IF up THEN RoundUp(d.e + k, keep) ELSE [e |-> d.e + k, m |-> keep]

\* rint(d): the nearest integer, ties to even, for d < 2^13.  Of the 52 - e
\* fraction bits, the low 39 are limbs 2 to 4 and the other f are in
\* top * 2^13 + l1.
Rint(d) ==
    IF d.e < -1 THEN 0
    ELSE LET f    == (52 - d.e) - 39
             head == d.m[1] * 8192 + d.m[2]
             n    == head \div Pow2(f)
             fh   == head % Pow2(f)
             half == Pow2(f - 1)
             low  == d.m[3] # 0 \/ d.m[4] # 0 \/ d.m[5] # 0
         IN  IF fh < half THEN n
             ELSE IF fh > half \/ low THEN n + 1
             ELSE n + (n % 2)

\* numpy's round(x, 1) = rint(x * 10) / 10, in tenths.
NumpyRound1(h) == IF h = 0 THEN 0 ELSE Rint(Mul10(ToDouble(h)))

\* The builtin round(x, 1): the tenth nearest to the exact value of the double,
\* ties to even (a tie needs the double to be exactly h/100).
BuiltinRound1(h) ==
    IF h = 0 THEN 0
    ELSE LET t == h \div 10
             d == ToDouble(h).dir
         IN  IF h % 10 < 5 THEN t
             ELSE IF h % 10 > 5 THEN t + 1
             ELSE IF d > 0 THEN t + 1
             ELSE IF d < 0 THEN t
             ELSE t + (t % 2)

\* ------------------------------------------------------------- the sheet

Row(e, r, f, c, o) ==
    [energy |-> e, reduction |-> r, flag |-> f, category |-> c, organism |-> o]

\* Rows a sheet is made of: energy in hundredths of kJ/L, reduction in tenths.
\* Two good rows either side of a rounding tie, a second category and
\* organism, the ceiling itself, and one row breaking each cleaning rule.
RowPool ==
    { Row(104, 20, "yes", "juice", "E. coli"),
      Row(105, 30, "yes", "juice", "Listeria"),
      Row(115, 10, "yes", "milk", "E. coli"),
      Row(30000, 50, "yes", "milk", "Listeria"),
      Row(NaN, 20, "yes", "juice", "E. coli"),
      Row(30001, 50, "yes", "milk", "E. coli"),
      Row(104, NaN, "yes", "juice", "Listeria"),
      Row(104, 20, "no", "milk", "E. coli") }

\* pd.read_excel gives row i (from 0) the index label i.
Indexed(rows) ==
    [i \in 1..Len(rows) |->
        [idx |-> i - 1, energy |-> rows[i].energy, reduction |-> rows[i].reduction,
         flag |-> rows[i].flag, category |-> rows[i].category,
         organism |-> rows[i].organism]]

Sheets == { Indexed(rows) : rows \in UNION { [1..n -> RowPool] : n \in 0..MaxRows } }

\* --------------------------------------------------------------- pandas

notna(x) == x # NaN

\* x <= c on a column: a comparison with NaN is False.
le(x, c) == x # NaN /\ x <= c

RECURSIVE Select(_, _)
\* df[mask]: the rows whose mask entry is True, in order.
Select(table, mask) ==
    IF Len(table) = 0 THEN <<>>
    ELSE (IF Head(mask) THEN <<Head(table)>> ELSE <<>>) \o Select(Tail(table), Tail(mask))

\* Alphabetical order on the names of the sheet.
Earlier(v, w) ==
    LET rank == [n \in {"E. coli", "Listeria", "juice", "milk"} |->
                    CASE n = "E. coli" -> 1 [] n = "Listeria" -> 2 [] n = "juice" -> 3 [] n = "milk" -> 4]
    IN  rank[v] <= rank[w]

RECURSIVE Sorted(_)
Sorted(values) ==
    IF values = {} THEN <<>>
    ELSE LET least == CHOOSE v \in values : \A w \in values : Earlier(v, w)
         IN  <<least>> \o Sorted(values \ {least})

\* numpy.unique(): the distinct values, sorted.
SortedUnique(column) == Sorted({ column[i] : i \in 1..Len(column) })

RECURSIVE unique(_)
\* Series.unique(): the distinct values in order of first appearance.
unique(column) ==
    IF Len(column) = 0 THEN <<>>
    ELSE LET rest == unique(SubSeq(column, 1, Len(column) - 1))
             last == column[Len(column)]
         IN  IF \E i \in 1..Len(rest) : rest[i] = last THEN rest ELSE rest \o <<last>>

Column(table, name) == [i \in 1..Len(table) |-> table[i][name]]

\* Series.min() / Series.max(): NaN on an empty column.
SeriesMin(column) ==
    IF Len(column) = 0 THEN NaN
    ELSE CHOOSE x \in {column[i] : i \in 1..Len(column)} :
            \A i \in 1..Len(column) : x <= column[i]

SeriesMax(column) ==
    IF Len(column) = 0 THEN NaN
    ELSE CHOOSE x \in {column[i] : i \in 1..Len(column)} :
            \A i \in 1..Len(column) : x >= column[i]

\* ----------------------------------------------------------- the Loader

\* The ceiling of the energy filter, in kJ/L.
EnergyCeiling == 300

FilterEnergyNotNa(table) ==
    Select(table, [i \in 1..Len(table) |-> notna(table[i].energy)])

\* The ceiling taken as exclusive (energy < 300).
FilterEnergyBelowCeiling(table) ==
    Select(table, [i \in 1..Len(table) |->
        table[i].energy # NaN /\ table[i].energy < EnergyCeiling * 100])

FilterEnergyCeiling(table) ==
    Select(table, [i \in 1..Len(table) |-> le(table[i].energy, EnergyCeiling * 100)])

FilterReductionNotNa(table) ==
    Select(table, [i \in 1..Len(table) |-> notna(table[i].reduction)])

FilterIncluded(table) ==
    Select(table, [i \in 1..Len(table) |-> table[i].flag = "yes"])

Loader ==
    /\ pc = "load"
    /\ df' = FilterIncluded(FilterReductionNotNa(FilterEnergyCeiling(FilterEnergyNotNa(source))))
    /\ pc' = "describe"
    /\ UNCHANGED <<source, organism_grouped_values, matrix_category_values,
                   min_rounded, max_rounded, slider, layout, error, call, fig>>

\* ------------------------------------------------ the Control Descriptor

\* The bound rounded by the builtin round, as for a Python float.
RoundBoundBuiltin(x) == IF x = NaN THEN NaN ELSE BuiltinRound1(x)

\* round(numpy.float64, 1) is numpy's round; round(nan, 1) is nan.
RoundBound(x) == IF x = NaN THEN NaN ELSE NumpyRound1(x)

ControlDescriptor ==
    /\ pc = "describe"
    /\ organism_grouped_values' = unique(Column(df, "organism"))
    /\ matrix_category_values' = unique(Column(df, "category"))
    /\ min_rounded' = RoundBound(SeriesMin(Column(df, "energy")))
    /\ max_rounded' = RoundBound(SeriesMax(Column(df, "energy")))
    /\ pc' = "layout"
    /\ UNCHANGED <<source, df, slider, layout, error, call, fig>>

\* ---------------------------------------------------- the Layout Builder

RangeSlider(lo, hi) == [min |-> lo, max |-> hi, value |-> <<lo, hi>>]

\* A Dropdown's value as the callback receives it: a list or a bare scalar.
Scalar(v) == [kind |-> "scalar", value |-> v]
List(items) == [kind |-> "list", items |-> items]

Dropdown(values) == [options |-> values, value |-> Scalar(values[1]), multi |-> TRUE]

\* The children are built in order: the RangeSlider exists by the time
\* values[0] of an empty array raises IndexError; app.layout is then never
\* assigned.
LayoutBuilder ==
    /\ pc = "layout"
    /\ slider' = RangeSlider(min_rounded, max_rounded)
    /\ IF matrix_category_values = <<>> \/ organism_grouped_values = <<>>
       THEN /\ error' = "IndexError"
            /\ pc' = "crashed"
            /\ UNCHANGED layout
       ELSE /\ layout' = [range_slider |-> RangeSlider(min_rounded, max_rounded),
                          category_dropdown |-> Dropdown(matrix_category_values),
                          organism_dropdown |-> Dropdown(organism_grouped_values)]
            /\ pc' = "serving"
            /\ UNCHANGED error
    /\ UNCHANGED <<source, df, organism_grouped_values, matrix_category_values,
                   min_rounded, max_rounded, call, fig>>

\* ---------------------------------------------- the plotting library

RECURSIVE SumXY(_)
SumXY(points) ==
    IF Len(points) = 0 THEN 0
    ELSE Head(points).energy * Head(points).reduction + SumXY(Tail(points))

RECURSIVE SumXXHigh(_)
SumXXHigh(points) ==
    IF Len(points) = 0 THEN 0
    ELSE ((Head(points).energy * Head(points).energy) \div 1000000) + SumXXHigh(Tail(points))

RECURSIVE SumXXLow(_)
SumXXLow(points) ==
    IF Len(points) = 0 THEN 0
    ELSE ((Head(points).energy * Head(points).energy) % 1000000) + SumXXLow(Tail(points))

\* trendline="ols" with add_constant False: the line through the origin of
\* slope sum(x y) / sum(x x), over all points whatever their group.  The
\* slope is kept as its numerator and its denominator, the latter in two
\* limbs of six decimal digits.
ols(points) ==
    [sxy |-> SumXY(points),
     sxx |-> <<SumXXHigh(points) + (SumXXLow(points) \div 1000000),
               SumXXLow(points) % 1000000>>]

\* px.scatter(..., trendline="ols", trendline_scope="overall") followed by
\* update_layout: the library fits a trend line to more than one point only.
scatter(filtered_df) ==
    [points |-> filtered_df,
     trendline |-> IF Len(filtered_df) > 1 THEN ols(filtered_df) ELSE None,
     xaxis_title |-> "Volumetric energy input (kJ/L)",
     yaxis_title |-> "Decimal microbial reduction (-)"]

\* --------------------------------------------------------- the callback

\* The energies a sheet can hold, and numpy's round of each.
SheetEnergies == { r.energy : r \in RowPool } \ {NaN}
NumpyTenths == [h \in SheetEnergies |-> NumpyRound1(h)]

\* df['Volumetric energy input (kJ/L)'].round(1), one value of it.
SeriesRound1(h) == NumpyTenths[h]

\* round(est_energy_input_2_J_ml_range[k], 1) on a number of the payload.
round1(h) == BuiltinRound1(h)

\* Series.between(lo, hi): both ends included.
between(x, lo, hi) == lo <= x /\ x <= hi

\* The selection without the isinstance test: a bare value selects nothing.
AsListUnwrapped(selected) == IF selected.kind = "list" THEN selected.items ELSE <<>>

\* selected if isinstance(selected, list) else [selected]
AsList(selected) == IF selected.kind = "list" THEN selected.items ELSE <<selected.value>>

\* isin with an empty selection taken as "no filter".
isin_or_all(v, values) == Len(values) = 0 \/ \E i \in 1..Len(values) : values[i] = v

\* Series.isin(values), one value of it.
isin(v, values) == \E i \in 1..Len(values) : values[i] = v

Mask(table, range, categories, organisms) ==
    [i \in 1..Len(table) |->
        /\ between(SeriesRound1(table[i].energy), round1(range[1]), round1(range[2]))
        /\ isin(table[i].category, AsList(categories))
        /\ isin(table[i].organism, AsList(organisms))]

\* The callback narrowing the global table: df = df[mask].
update_bar_chart_inplace(range, categories, organisms, trigger) ==
    /\ pc = "serving"
    /\ df' = Select(df, Mask(df, range, categories, organisms))
    /\ fig' = scatter(df')
    /\ call' = [range |-> range, categories |-> categories, organisms |-> organisms,
                trigger |-> trigger]
    /\ UNCHANGED <<pc, source, organism_grouped_values, matrix_category_values,
                   min_rounded, max_rounded, slider, layout, error>>

\* The callback keeping the last figure while the range is the one it was made for.
update_bar_chart_cached(range, categories, organisms, trigger) ==
    /\ pc = "serving"
    /\ fig' = IF call # None /\ call.range = range THEN fig
              ELSE scatter(Select(df, Mask(df, range, categories, organisms)))
    /\ call' = [range |-> range, categories |-> categories, organisms |-> organisms,
                trigger |-> trigger]
    /\ UNCHANGED <<pc, source, df, organism_grouped_values, matrix_category_values,
                   min_rounded, max_rounded, slider, layout, error>>

\* One invocation of the callback; the range is in hundredths.
update_bar_chart(range, categories, organisms, trigger) ==
    /\ pc = "serving"
    /\ fig' = scatter(Select(df, Mask(df, range, categories, organisms)))
    /\ call' = [range |-> range, categories |-> categories, organisms |-> organisms,
                trigger |-> trigger]
    /\ UNCHANGED <<pc, source, df, organism_grouped_values, matrix_category_values,
                   min_rounded, max_rounded, slider, layout, error>>

\* ------------------------------------------------------- the browser

\* Positions a handle of the range slider can be dragged to, in hundredths.
SliderStops == {100, 105, 110}

Stops ==
    { h \in SliderStops : layout.range_slider.min * 10 <= h /\ h <= layout.range_slider.max * 10 }
        \cup {layout.range_slider.min * 10, layout.range_slider.max * 10}

SubLists(values) == { Select(values, mask) : mask \in [1..Len(values) -> BOOLEAN] }

\* What a multi-select dropdown can send: a list of its options (empty when
\* cleared), or a bare value: one option, or None.
Selections(options) ==
    { List(items) : items \in SubLists(options) }
        \cup { Scalar(options[i]) : i \in 1..Len(options) }
        \cup { Scalar("None") }

\* A page load fires the callback with the values of the layout.
InitialRender ==
    /\ pc = "serving"
    /\ update_bar_chart(<<layout.range_slider.value[1] * 10, layout.range_slider.value[2] * 10>>,
                        layout.category_dropdown.value,
                        layout.organism_dropdown.value, "page load")

\* Every change of one control fires the callback with the current value of all three.
SlideRange ==
    /\ pc = "serving" /\ call # None
    /\ \E lo \in Stops, hi \in Stops :
          /\ lo <= hi
          /\ update_bar_chart(<<lo, hi>>, call.categories, call.organisms, "range")

SelectCategories ==
    /\ pc = "serving" /\ call # None
    /\ \E selected \in Selections(layout.category_dropdown.options) :
          update_bar_chart(call.range, selected, call.organisms, "category")

SelectOrganisms ==
    /\ pc = "serving" /\ call # None
    /\ \E selected \in Selections(layout.organism_dropdown.options) :
          update_bar_chart(call.range, call.categories, selected, "organism")

\* ---------------------------------------------------- the specification

Init ==
    /\ pc = "load"
    /\ source \in Sheets
    /\ df = <<>>
    /\ organism_grouped_values = <<>>
    /\ matrix_category_values = <<>>
    /\ min_rounded = NaN
    /\ max_rounded = NaN
    /\ slider = None
    /\ layout = None
    /\ error = "none"
    /\ call = None
    /\ fig = None

Next ==
    \/ Loader
    \/ ControlDescriptor
    \/ LayoutBuilder
    \/ InitialRender
    \/ SlideRange
    \/ SelectCategories
    \/ SelectOrganisms

Spec == Init /\ [][Next]_vars

\* -------------------------------------------------------------- claims

\* The four cleaning conditions on one row of the sheet (300.00 kJ/L = 30000).
Kept(row) ==
    /\ row.energy # NaN
    /\ row.energy <= 30000
    /\ row.reduction # NaN
    /\ row.flag = "yes"

\* C1: once the Loader has finished, and in every later state, df holds
\* exactly the rows of the sheet whose energy is present and <= 300, whose
\* reduction is present and whose inclusion flag is "yes", in sheet order.
C1_CleanedTableExact ==
    pc # "load" =>
        /\ \A k \in 1..Len(df) : df[k] = source[df[k].idx + 1] /\ Kept(df[k])
        /\ \A k \in 1..(Len(df) - 1) : df[k].idx < df[k + 1].idx
        /\ \A i \in 1..Len(source) :
              Kept(source[i]) => \E k \in 1..Len(df) : df[k].idx = i - 1

\* A sheet of two rows, the first above the ceiling, cleaned and then rendered.
C1_Witness ==
    /\ pc = "serving" /\ call # None
    /\ Len(source) = 2 /\ source[1].energy = 30001
    /\ Len(df) = 1 /\ df[1].energy = 30000

\* The values a selection stands for.
SelectedSet(selected) == { AsList(selected)[i] : i \in 1..Len(AsList(selected)) }

\* The predicate of the specification on one row, with round(x, 1) the
\* builtin round on the record's energy and on both ends of the range.
Matches(row, args) ==
    /\ BuiltinRound1(args.range[1]) <= BuiltinRound1(row.energy)
    /\ BuiltinRound1(row.energy) <= BuiltinRound1(args.range[2])
    /\ row.category \in SelectedSet(args.categories)
    /\ row.organism \in SelectedSet(args.organisms)

\* C2: the points of every figure are exactly the rows of df for which
\* round(energy, 1) lies in [round(lo, 1), round(hi, 1)], whose category
\* is selected and whose organism is selected, in the order of df.
C2_PointsAreTheMatchingRows ==
    call # None =>
        LET Test(row) == Matches(row, call)
        IN  fig.points = SelectSeq(df, Test)

\* C3: invoked with the full bounds of the slider and with every observed
\* category and every observed organism selected, the callback returns all
\* of df.
C3_FullRangeAllValuesKeepsEverything ==
    ( /\ call # None
      /\ call.range = <<min_rounded * 10, max_rounded * 10>>
      /\ call.categories = List(matrix_category_values)
      /\ call.organisms = List(organism_grouped_values) )
    => fig.points = df

\* Full bounds and all values selected, over a table whose least energy is
\* the rounding tie 1.05.
C3_Witness ==
    /\ call # None
    /\ call.range = <<min_rounded * 10, max_rounded * 10>>
    /\ call.categories = List(matrix_category_values)
    /\ call.organisms = List(organism_grouped_values)
    /\ Len(df) = 2 /\ df[1].energy = 105 /\ df[2].energy = 115
    /\ fig.points = df

\* C4: with the range [1.0, 1.0] and its category and organism selected, a
\* record of energy 1.04 is a point of the figure and a record of energy
\* 1.05 is not.
C4_RangeBoundary ==
    (call # None /\ call.range = <<100, 100>>) =>
        \A k \in 1..Len(df) :
            ( /\ df[k].category \in SelectedSet(call.categories)
              /\ df[k].organism \in SelectedSet(call.organisms) )
            => /\ df[k].energy = 104 => \E j \in 1..Len(fig.points) : fig.points[j] = df[k]
               /\ df[k].energy = 105 => \A j \in 1..Len(fig.points) : fig.points[j] # df[k]

C6_EmptyTableFailsFast ==
    /\ (pc \in {"serving", "crashed"} /\ Len(df) = 0)
          => error = "EmptyDatasetError" /\ slider = None /\ layout = None
    /\ slider # None => slider.min # NaN /\ slider.max # NaN

\* A tenth t is h rounded to one decimal: the nearest tenth, a tie either way.
IsRounded(t, h) == 10 * t - 5 <= h /\ h <= 10 * t + 5

\* C7: in the layout the range slider starts on its full bounds, the
\* rounded least and greatest energy of df, and each dropdown starts on one
\* bare value, the first distinct value met in its column.
C7_InitialControls ==
    layout # None =>
        /\ layout.range_slider.value = <<layout.range_slider.min, layout.range_slider.max>>
        /\ IsRounded(layout.range_slider.min, SeriesMin(Column(df, "energy")))
        /\ IsRounded(layout.range_slider.max, SeriesMax(Column(df, "energy")))
        /\ layout.category_dropdown.value = Scalar(df[1].category)
        /\ layout.organism_dropdown.value = Scalar(df[1].organism)
        /\ \A k \in 1..Len(df) :
              /\ \E i \in 1..Len(layout.category_dropdown.options) :
                    layout.category_dropdown.options[i] = df[k].category
              /\ \E i \in 1..Len(layout.organism_dropdown.options) :
                    layout.organism_dropdown.options[i] = df[k].organism

\* A layout over milk then juice: the default is milk, the first met, and
\* the slider starts on [1.0, 1.2].
C7_Witness ==
    /\ layout # None
    /\ Len(df) = 2 /\ df[1].category = "milk" /\ df[2].category = "juice"
    /\ layout.category_dropdown.value = Scalar("milk")
    /\ Len(layout.category_dropdown.options) = 2
    /\ layout.range_slider.value = <<10, 12>>

\* The table the Loader makes of the sheet.
LoadedTable ==
    FilterIncluded(FilterReductionNotNa(FilterEnergyCeiling(FilterEnergyNotNa(source))))

\* C8: the figure an invocation returns is decided by its three inputs and
\* the loaded table alone, so two invocations with the same inputs return
\* the same points and the same trend line whatever was invoked before or
\* between them.
C8_FigureDecidedByInputs ==
    call # None =>
        fig = scatter(Select(LoadedTable,
                             Mask(LoadedTable, call.range, call.categories, call.organisms)))

\* The inputs of the first render, invoked again from the organism dropdown,
\* over two rows of which they select one.
C8_Witness ==
    /\ call # None /\ call.trigger = "organism"
    /\ call.range = <<layout.range_slider.value[1] * 10, layout.range_slider.value[2] * 10>>
    /\ call.categories = layout.category_dropdown.value
    /\ call.organisms = layout.organism_dropdown.value
    /\ Len(df) = 2 /\ Len(fig.points) = 1

C10_ScalarIsSingleton ==
    call # None =>
        /\ call.categories.kind = "scalar" =>
              fig = scatter(Select(df, Mask(df, call.range,
                                            List(<<call.categories.value>>), call.organisms)))
        /\ call.organisms.kind = "scalar" =>
              fig = scatter(Select(df, Mask(df, call.range, call.categories,
                                            List(<<call.organisms.value>>))))
        /\ call.trigger = "page load" =>
              LET First(row) == row.category = df[1].category /\ row.organism = df[1].organism
              IN  fig.points = SelectSeq(df, First)

\* The first render over two rows of different categories: one point.
C10_Witness ==
    /\ call # None /\ call.trigger = "page load"
    /\ call.categories.kind = "scalar" /\ call.organisms.kind = "scalar"
    /\ Len(df) = 2 /\ df[1].category # df[2].category
    /\ Len(fig.points) = 1

====
